---- MODULE Spec2Model ----
(***************************************************************************)
(* A model of the meeting-research backend:                                *)
(*   - enhanced_chrome_extension_server.py: the Flask handlers over the    *)
(*     module-level calendar_agent handle;                                 *)
(*   - langchain_agent.py: LangChainCalendarAgent, its four tools and run. *)
(* The calendar research agent and the LLM executor are external: every    *)
(* call to them is a nondeterministic choice among the answers they can    *)
(* give (a value or a raised exception).                                   *)
(* Python strings are modelled as sequences of one-character strings, so   *)
(* that strptime / strftime / isoformat are computed, not assumed.         *)
(* Optional values (None or a value) are sequences of length 0 or 1.       *)
(***************************************************************************)
EXTENDS Integers, Sequences, FiniteSets, TLC

\* ------------------------------------------------------------------ bounds
\* Longest list one call of the external agent returns in the model.
MaxLen == 2
\* Most meetings the seven keyword scans of strategy 3 return in total.
MaxAll == 3

\* ------------------------------------------------------------ text helpers
None == <<>>

Some(x) == <<x>>

Digits == <<"0", "1", "2", "3", "4", "5", "6", "7", "8", "9">>

IsDigit(c) == \E i \in 1..10 : Digits[i] = c

DigitVal(c) == (CHOOSE i \in 1..10 : Digits[i] = c) - 1

\* str(n) for a natural number n: decimal, no padding.
RECURSIVE Dec(_)
Dec(n) ==
    IF n < 10 THEN <<Digits[n + 1]>> ELSE Dec(n \div 10) \o <<Digits[(n % 10) + 1]>>

\* Zero-padded decimal of width w (strftime's %m, %d with w = 2, %Y with w = 4).
RECURSIVE Pad(_, _)
Pad(n, w) ==
    IF Len(Dec(n)) >= w THEN Dec(n) ELSE <<"0">> \o Pad(n, w - 1)

\* The number a sequence of digits reads as.
RECURSIVE Num(_)
Num(ds) ==
    IF ds = <<>> THEN 0 ELSE 10 * Num(SubSeq(ds, 1, Len(ds) - 1)) + DigitVal(ds[Len(ds)])

AllDigits(s) == \A i \in 1..Len(s) : IsDigit(s[i])

\* s.split(sep) for a one-character separator.
RECURSIVE Split(_, _)
Split(s, sep) ==
    IF \A i \in 1..Len(s) : s[i] # sep
    THEN <<s>>
    ELSE LET i == CHOOSE j \in 1..Len(s) :
                      s[j] = sep /\ \A k \in 1..(j - 1) : s[k] # sep
         IN  <<SubSeq(s, 1, i - 1)>> \o Split(SubSeq(s, i + 1, Len(s)), sep)

\* calendar.month_name[1..12] (C locale), the text of strftime's %B.
MonthNames ==
    << <<"J","a","n","u","a","r","y">>,
       <<"F","e","b","r","u","a","r","y">>,
       <<"M","a","r","c","h">>,
       <<"A","p","r","i","l">>,
       <<"M","a","y">>,
       <<"J","u","n","e">>,
       <<"J","u","l","y">>,
       <<"A","u","g","u","s","t">>,
       <<"S","e","p","t","e","m","b","e","r">>,
       <<"O","c","t","o","b","e","r">>,
       <<"N","o","v","e","m","b","e","r">>,
       <<"D","e","c","e","m","b","e","r">> >>

\* strftime's %b: the month name's first three letters.
MonthAbbr(m) == SubSeq(MonthNames[m], 1, 3)

IsLeap(y) == (y % 4 = 0 /\ y % 100 # 0) \/ y % 400 = 0

DaysInMonth(y, m) ==
    IF m = 2 THEN (IF IsLeap(y) THEN 29 ELSE 28)
    ELSE IF m \in {4, 6, 9, 11} THEN 30 ELSE 31

\* A date is <<year, month, day>>; a datetime is [date, hour] (minutes and
\* seconds are zero throughout).
MkDate(y, m, d) == <<y, m, d>>

\* _strptime's field patterns: %Y = \d\d\d\d ; %m = 1[0-2]|0[1-9]|[1-9] ;
\* %d = 3[01]|[12]\d|0[1-9]|[1-9]| [1-9].
MatchesY(f) == Len(f) = 4 /\ AllDigits(f)

MatchesM(f) ==
    \/ Len(f) = 1 /\ IsDigit(f[1]) /\ f[1] # "0"
    \/ Len(f) = 2 /\ AllDigits(f) /\ Num(f) \in 1..12

MatchesD(f) ==
    \/ Len(f) = 1 /\ IsDigit(f[1]) /\ f[1] # "0"
    \/ Len(f) = 2 /\ AllDigits(f) /\ Num(f) \in 1..31
    \/ Len(f) = 2 /\ f[1] = " " /\ IsDigit(f[2]) /\ f[2] # "0"

FieldNum(f) == IF f[1] = " " THEN Num(Tail(f)) ELSE Num(f)

\* datetime.strptime(date_str, '%Y-%m-%d'): Some(date), or None where Python
\* raises ValueError (no match, unconverted data, or no such calendar day).
strptime(date_str) ==
    LET fs == Split(date_str, "-")
    IN  IF Len(fs) = 3 /\ MatchesY(fs[1]) /\ MatchesM(fs[2]) /\ MatchesD(fs[3])
        THEN LET y == Num(fs[1])
                 m == FieldNum(fs[2])
                 d == FieldNum(fs[3])
             IN  IF y >= 1 /\ d <= DaysInMonth(y, m)
                 THEN Some(MkDate(y, m, d))
                 ELSE None
        ELSE None

\* target_date.strftime('%Y-%m-%d')
FmtISO(dt) == Pad(dt[1], 4) \o <<"-">> \o Pad(dt[2], 2) \o <<"-">> \o Pad(dt[3], 2)

\* start_time.isoformat() of a datetime with zero minutes and seconds.
isoformat(t) ==
    FmtISO(t.date) \o <<"T">> \o Pad(t.hour, 2) \o <<":", "0", "0", ":", "0", "0">>

\* The six reformatted strings of strategy 2, in the order of the list.
date_formats(dt) ==
    << MonthNames[dt[2]] \o <<" ">> \o Pad(dt[3], 2) \o <<",", " ">> \o Pad(dt[1], 4),
       MonthAbbr(dt[2]) \o <<" ">> \o Pad(dt[3], 2) \o <<",", " ">> \o Pad(dt[1], 4),
       Pad(dt[2], 2) \o <<"/">> \o Pad(dt[3], 2) \o <<"/">> \o Pad(dt[1], 4),
       Pad(dt[2], 2) \o <<"/">> \o Pad(dt[3], 2),
       Dec(dt[3]),
       FmtISO(dt) >>

\* The seven keywords of strategy 3, in the order of the list.
keywords ==
    << <<"m","e","e","t","i","n","g">>,
       <<"i","n","t","e","r","v","i","e","w">>,
       <<"c","a","l","l">>,
       <<"a","p","p","o","i","n","t","m","e","n","t">>,
       <<"s","e","s","s","i","o","n">>,
       <<"d","i","s","c","u","s","s","i","o","n">>,
       <<"e","v","e","n","t">> >>

\* ------------------------------------------------- the external agent's data
\* A MeetingInfo as the server reads it: meeting_id, meeting_title and
\* start_time (None or a datetime). end_time, location and description are
\* copied to the response untouched and are left out.
Meeting(id, title, start) ==
    [meeting_id |-> id, meeting_title |-> title, start_time |-> start]

At(y, m, d, hh) == Some([date |-> MkDate(y, m, d), hour |-> hh])

\* A weekly meeting on the 24th and on the 4th, another meeting on the 24th,
\* and one the calendar gives no start time.
Meetings ==
    { Meeting("e1", "Standup", At(2025, 9, 24, 10)),
      Meeting("e2", "Standup", At(2025, 9, 4, 10)),
      Meeting("e3", "Interview", At(2025, 9, 24, 15)),
      Meeting("e4", "Interview", None) }

\* An AttendeeResearchResult.
Result(name, found) ==
    [attendee |-> [display_name |-> name], research_summary |-> "bio", found_info |-> found]

SeqsUpTo(S, n) == UNION { [1..k -> S] : k \in 0..n }

\* What a request can carry in its URL or body.
DateStrs ==
    { <<"2","0","2","5","-","0","9","-","2","4">>,
      <<"2","0","2","5","-","9","-","4">>,
      <<"2","0","2","5","-","0","2","-","3","0">>,
      <<"2","4","/","0","9">> }

MeetingIds == { <<"e","1">> }

Keywords == { <<>>, <<"c","a","l","l">> }

Threads == {"t1", "t2"}

\* The environment of a run: which meetings the calendar can return, which
\* inputs arrive, what attendee research can return for each meeting (by
\* meeting_id), how long the lists of
\* one search (max_len) and of all keyword scans together (max_all) get, and
\* which server threads take requests.
FullEnv ==
    [ meetings  |-> Meetings,
      date_strs |-> DateStrs,
      research  |-> [ e1 |-> { <<Result("Ann", TRUE), Result("Bob", FALSE)>> },
                      e2 |-> { <<Result("Bob", FALSE), Result("Ann", TRUE)>> },
                      e3 |-> { <<Result("Ann", TRUE)>> },
                      e4 |-> { <<>> } ],
      max_len   |-> MaxLen,
      max_all   |-> MaxAll,
      threads   |-> {"t1"} ]

SmallEnv ==
    [ meetings  |-> { Meeting("e1", "Standup", At(2025, 9, 24, 10)) },
      date_strs |-> { <<"2","0","2","5","-","0","9","-","2","4">>, <<"2","4","/","0","9">> },
      research  |-> [ e1 |-> { <<Result("Ann", TRUE)>> } ],
      max_len   |-> 1,
      max_all   |-> 1,
      threads   |-> Threads ]

\* An answer of the external agent: a value, or an exception raised.
Value(v) == [raised |-> FALSE, value |-> v]

Raise == [raised |-> TRUE, value |-> <<>>]

VARIABLES calendar_agent, env, h, solo, run

vars == <<calendar_agent, env, h, solo, run>>

\* ------------------------------------------------------- a handler's locals
NoResponse == [status |-> 0, body |-> [pending |-> TRUE]]

\* The locals of one handler invocation. calls is the history of the agent
\* calls the invocation has made and answers, of the same length, what each
\* call came back with; events is the history of what went wrong:
\* "raised" (an exception reached the handler's outer except), "caught" (an
\* exception was caught by an inner except), "not_found", "bad_input".
IdleFrame ==
    [ handler      |-> "none",
      input        |-> <<>>,
      body_kind    |-> "none",
      pc           |-> "idle",
      parsed       |-> FALSE,
      target_date  |-> None,
      k            |-> 0,
      meetings     |-> <<>>,
      all_meetings |-> <<>>,
      i            |-> 0,
      research_results |-> <<>>,
      meeting_summary  |-> None,
      enhanced_meetings |-> <<>>,
      calls        |-> <<>>,
      answers      |-> <<>>,
      events       |-> {},
      response     |-> NoResponse ]

NewFrame(handler, input, body_kind) ==
    [IdleFrame EXCEPT !.handler = handler, !.input = input,
                      !.body_kind = body_kind, !.pc = "entry"]

SearchCall(query, max_results) ==
    [method |-> "search_meetings_by_keyword", query |-> query,
     max_results |-> max_results, meeting |-> None]

MeetingCall(method, meeting) ==
    [method |-> method, query |-> <<>>, max_results |-> 0, meeting |-> Some(meeting)]

LookupCall(method, id) ==
    [method |-> method, query |-> id, max_results |-> 0, meeting |-> None]

Called(s, call) == [s EXCEPT !.calls = Append(@, call)]

Respond(s, status, body) ==
    [s EXCEPT !.pc = "done", !.response = [status |-> status, body |-> body]]

\* OnException with the status code left off the return (Flask then sends 200).
OnExceptionNoStatus(s, msg) ==
    Respond([s EXCEPT !.events = @ \cup {"raised"}], 200,
            IF s.handler = "date"
            THEN [error |-> msg, meetings |-> <<>>]
            ELSE [error |-> msg])

\* The handler's outer "except Exception as e": HTTP 500 with str(e).
OnException(s, msg) ==
    Respond([s EXCEPT !.events = @ \cup {"raised"}], 500,
            IF s.handler = "date"
            THEN [error |-> msg, meetings |-> <<>>]
            ELSE [error |-> msg])

ListHandler(s) == s.handler \in {"date", "search"}

\* --------------------------------------------------- the handlers' steps
\* RemoveDuplicates with the seen_titles test left out: every meeting is kept.
RemoveDuplicatesKeepAll(all_meetings, seen_titles) == all_meetings

\* Lines 84-90: keep the first meeting of every meeting_title.
RECURSIVE RemoveDuplicates(_, _)
RemoveDuplicates(all_meetings, seen_titles) ==
    IF all_meetings = <<>> THEN <<>>
    ELSE LET meeting == Head(all_meetings)
         IN  IF meeting.meeting_title \in seen_titles
             THEN RemoveDuplicates(Tail(all_meetings), seen_titles)
             ELSE <<meeting>> \o RemoveDuplicates(Tail(all_meetings),
                                    seen_titles \cup {meeting.meeting_title})

\* Lines 92-98: keep the meetings that have a start_time on the target date.
RECURSIVE FilterByDate(_, _)
FilterByDate(unique_meetings, target_date) ==
    IF unique_meetings = <<>> THEN <<>>
    ELSE LET meeting == Head(unique_meetings)
             rest == FilterByDate(Tail(unique_meetings), target_date)
         IN  IF meeting.start_time # None /\ meeting.start_time[1].date = target_date
             THEN <<meeting>> \o rest
             ELSE rest

\* AttendeeInfos that lists only the attendees something was found about.
AttendeeInfosFoundOnly(research_results) ==
    LET found == SelectSeq(research_results, LAMBDA result : result.found_info)
    IN  [j \in 1..Len(found) |->
            [ name             |-> found[j].attendee.display_name,
              research_summary |-> found[j].research_summary,
              found_info       |-> found[j].found_info ]]

\* Lines 125-134: one attendee_info per research result, in order.
AttendeeInfos(research_results) ==
    [j \in 1..Len(research_results) |->
        [ name             |-> research_results[j].attendee.display_name,
          research_summary |-> research_results[j].research_summary,
          found_info       |-> research_results[j].found_info ]]

\* Lines 112-122 and 141-146: the entry of one meeting in a response.
EnhancedMeeting(meeting, research_results, summary, questions) ==
    [ id         |-> meeting.meeting_id,
      title      |-> meeting.meeting_title,
      start_time |-> IF meeting.start_time # None
                     THEN Some(isoformat(meeting.start_time[1]))
                     ELSE None,
      attendees  |-> AttendeeInfos(research_results),
      research_summary      |-> summary,
      preparation_questions |-> questions ]

\* Lines 150-154 and 349-353: the successful response of a list endpoint.
ListBody(s, enhanced_meetings) ==
    IF s.handler = "date"
    THEN [date |-> s.input, meetings |-> enhanced_meetings,
          count |-> Len(enhanced_meetings)]
    ELSE [keyword |-> s.input, meetings |-> enhanced_meetings,
          count |-> Len(enhanced_meetings)]

\* Lines 105-107: the loop over the selected meetings starts (or, with none
\* selected, the response is built at once).
Begin(s) ==
    IF s.meetings = <<>>
    THEN Respond(s, 200, ListBody(s, <<>>))
    ELSE [s EXCEPT !.pc = "research", !.i = 1]

\* Line 148 and the loop's next round: the entry is appended; after the last
\* meeting the response is built.
AppendEntry(s, entry) ==
    LET enhanced_meetings == Append(s.enhanced_meetings, entry)
        s1 == [s EXCEPT !.enhanced_meetings = enhanced_meetings,
                        !.research_results = <<>>, !.meeting_summary = None]
    IN  IF s.i < Len(s.meetings)
        THEN [s1 EXCEPT !.i = s.i + 1, !.pc = "research"]
        ELSE Respond(s1, 200, ListBody(s, enhanced_meetings))

\* DoEntry with the "if not calendar_agent" guard left out.
DoEntryNoGuard(s, agent) ==
    IF s.handler = "health"
    THEN Respond(s, 200, [status |-> "healthy", agent_available |-> agent # "None"])
    ELSE [s EXCEPT !.pc = IF ListHandler(s) THEN "parse" ELSE "lookup"]

\* The "if not calendar_agent" guard every handler but health_check opens with.
DoEntry(s, agent) ==
    IF s.handler = "health"
    THEN Respond(s, 200, [status |-> "healthy", agent_available |-> agent # "None"])
    ELSE IF agent = "None"
    THEN Respond(s, 500,
                 IF s.handler = "date"
                 THEN [error |-> "Calendar agent not available", meetings |-> <<>>]
                 ELSE [error |-> "Calendar agent not available"])
    ELSE [s EXCEPT !.pc = IF ListHandler(s) THEN "parse" ELSE "lookup"]

\* DoParse with the "if not keyword" check left out.
DoParseNoKeywordCheck(s) ==
    IF s.handler = "date"
    THEN IF strptime(s.input) = None
         THEN OnException(s, "ValueError")
         ELSE [s EXCEPT !.parsed = TRUE, !.target_date = strptime(s.input), !.pc = "s1"]
    ELSE IF s.body_kind = "none"
         THEN OnException(s, "AttributeError")
         ELSE [s EXCEPT !.parsed = TRUE, !.pc = "search"]

\* Line 49 (strptime) and lines 295-301 (the JSON body and its keyword).
DoParse(s) ==
    IF s.handler = "date"
    THEN IF strptime(s.input) = None
         THEN OnException(s, "ValueError")
         ELSE [s EXCEPT !.parsed = TRUE, !.target_date = strptime(s.input), !.pc = "s1"]
    ELSE IF s.body_kind = "none"
         THEN OnException(s, "AttributeError")
         ELSE IF s.body_kind = "no_keyword" \/ s.input = <<>>
         THEN Respond([s EXCEPT !.parsed = TRUE, !.events = @ \cup {"bad_input"}],
                      400, [error |-> "Keyword is required"])
         ELSE [s EXCEPT !.parsed = TRUE, !.pc = "search"]

\* Lines 54-58: strategy 1, the literal date_str.
DoStrategy1(s, a) ==
    LET c == Called(s, SearchCall(s.input, 10))
    IN  IF a.raised THEN OnException(c, "agent error")
        ELSE LET m == [c EXCEPT !.meetings = a.value]
             IN  IF a.value # <<>> THEN Begin(m)
                 ELSE [m EXCEPT !.pc = "s2", !.k = 1]

\* DoStrategy2 with the "if meetings: break" left out: the loop always runs
\* through all six formats and keeps the last result.
DoStrategy2NoBreak(s, a) ==
    LET c == Called(s, SearchCall(date_formats(s.target_date[1])[s.k], 10))
    IN  IF a.raised THEN OnException(c, "agent error")
        ELSE LET m == [c EXCEPT !.meetings = a.value]
             IN  IF s.k < Len(date_formats(s.target_date[1]))
                 THEN [m EXCEPT !.k = s.k + 1]
                 ELSE IF a.value # <<>> THEN Begin(m)
                 ELSE [m EXCEPT !.pc = "s3", !.k = 1, !.all_meetings = <<>>]

\* Lines 68-74: one round of strategy 2's loop over date_formats.
DoStrategy2(s, a) ==
    LET c == Called(s, SearchCall(date_formats(s.target_date[1])[s.k], 10))
    IN  IF a.raised THEN OnException(c, "agent error")
        ELSE LET m == [c EXCEPT !.meetings = a.value]
             IN  IF a.value # <<>> THEN Begin(m)
                 ELSE IF s.k < Len(date_formats(s.target_date[1]))
                 THEN [m EXCEPT !.k = s.k + 1]
                 ELSE [m EXCEPT !.pc = "s3", !.k = 1, !.all_meetings = <<>>]

\* Lines 75-103: one round of strategy 3's loop over keywords; after the
\* last one, lines 84-100. An exception is caught by the inner except and
\* leaves meetings as it was.
DoStrategy3(s, a) ==
    LET c == Called(s, SearchCall(keywords[s.k], 20))
    IN  IF a.raised THEN Begin([c EXCEPT !.events = @ \cup {"caught"}])
        ELSE LET all_meetings == c.all_meetings \o a.value
                 m == [c EXCEPT !.all_meetings = all_meetings]
             IN  IF s.k < Len(keywords)
                 THEN [m EXCEPT !.k = s.k + 1]
                 ELSE Begin([m EXCEPT !.meetings =
                        FilterByDate(RemoveDuplicates(all_meetings, {}),
                                     s.target_date[1])])

\* Line 304: the one search of search_meetings.
DoSearch(s, a) ==
    LET c == Called(s, SearchCall(s.input, 5))
    IN  IF a.raised THEN OnException(c, "agent error")
        ELSE Begin([c EXCEPT !.meetings = a.value])

\* DoLookup with get_next_meeting's not-found answer in get_meeting_details too.
DoLookupAsNext(s, a) ==
    LET c == Called(s, IF s.handler = "details"
                       THEN LookupCall("get_meeting_by_id", s.input)
                       ELSE LookupCall("get_next_meeting_info", <<>>))
    IN  IF a.raised THEN OnException(c, "agent error")
        ELSE IF a.value = None
        THEN Respond([c EXCEPT !.events = @ \cup {"not_found"}], 200,
                     [message |-> "No upcoming meetings found", meeting |-> None])
        ELSE [c EXCEPT !.meetings = a.value, !.i = 1, !.pc = "research"]

\* Lines 175-180 and 234-240: the lookup of get_meeting_details and of
\* get_next_meeting, and what each answers when there is no meeting.
DoLookup(s, a) ==
    LET c == Called(s, IF s.handler = "details"
                       THEN LookupCall("get_meeting_by_id", s.input)
                       ELSE LookupCall("get_next_meeting_info", <<>>))
    IN  IF a.raised THEN OnException(c, "agent error")
        ELSE IF a.value = None
        THEN LET n == [c EXCEPT !.events = @ \cup {"not_found"}]
             IN  IF s.handler = "details"
                 THEN Respond(n, 404, [error |-> "Meeting not found"])
                 ELSE Respond(n, 200, [message |-> "No upcoming meetings found",
                                       meeting |-> None])
        ELSE [c EXCEPT !.meetings = a.value, !.i = 1, !.pc = "research"]

\* Lines 109, 183, 243, 309: research_meeting_attendees, outside any inner try.
DoResearch(s, a) ==
    LET c == Called(s, MeetingCall("research_meeting_attendees", s.meetings[s.i]))
    IN  IF a.raised THEN OnException(c, "agent error")
        ELSE [c EXCEPT !.research_results = a.value, !.pc = "summary"]

\* Placeholder that keeps a summary that was already generated when the
\* questions raise.
PlaceholderKeepSummary(s) ==
    AppendEntry([s EXCEPT !.events = @ \cup {"caught"}],
                EnhancedMeeting(s.meetings[s.i], s.research_results,
                                IF s.meeting_summary # None
                                THEN s.meeting_summary[1]
                                ELSE "Error generating research summary",
                                "Error generating preparation questions"))

\* Lines 143-146 and 342-345: the inner except of the list endpoints.
Placeholder(s) ==
    AppendEntry([s EXCEPT !.events = @ \cup {"caught"}],
                EnhancedMeeting(s.meetings[s.i], s.research_results,
                                "Error generating research summary",
                                "Error generating preparation questions"))

\* Lines 138, 186, 246, 337: generate_meeting_summary.
DoSummary(s, a) ==
    LET c == Called(s, MeetingCall("generate_meeting_summary", s.meetings[s.i]))
    IN  IF a.raised
        THEN IF ListHandler(s) THEN Placeholder(c) ELSE OnException(c, "agent error")
        ELSE [c EXCEPT !.meeting_summary = Some(a.value), !.pc = "questions"]

\* Lines 139-142, 187-214, 247-276, 338-341: generate_meeting_type_questions
\* and what follows it.
DoQuestions(s, a) ==
    LET c == Called(s, MeetingCall("generate_meeting_type_questions", s.meetings[s.i]))
        entry == EnhancedMeeting(s.meetings[s.i], s.research_results,
                                 s.meeting_summary[1], a.value)
    IN  IF a.raised
        THEN IF ListHandler(s) THEN Placeholder(c) ELSE OnException(c, "agent error")
        ELSE IF ListHandler(s) THEN AppendEntry(c, entry)
        ELSE IF s.handler = "details" THEN Respond(c, 200, entry)
        ELSE Respond(c, 200, [meeting |-> entry])

\* One step of a handler's code with locals s, given the agent's answer a
\* (ignored by the steps that call nothing) and the module-level handle.
HandlerStep(s, a, agent) ==
    CASE s.pc = "entry"     -> DoEntry(s, agent)
      [] s.pc = "parse"     -> DoParse(s)
      [] s.pc = "s1"        -> DoStrategy1(s, a)
      [] s.pc = "s2"        -> DoStrategy2(s, a)
      [] s.pc = "s3"        -> DoStrategy3(s, a)
      [] s.pc = "search"    -> DoSearch(s, a)
      [] s.pc = "lookup"    -> DoLookup(s, a)
      [] s.pc = "research"  -> DoResearch(s, a)
      [] s.pc = "summary"   -> DoSummary(s, a)
      [] s.pc = "questions" -> DoQuestions(s, a)
      [] OTHER              -> s

\* What the history keeps of an answer: all of it, but of a search only
\* whether it raised (what a search returned is in meetings or all_meetings).
Kept(call, a) ==
    IF call.method = "search_meetings_by_keyword"
    THEN [raised |-> a.raised, value |-> <<>>]
    ELSE a

\* One step of a handler invocation: the step of its code, and the answer of
\* the call it made, if it made one, is added to the history.
Advance(s, a, agent) ==
    LET n == HandlerStep(s, a, agent)
    IN  IF Len(n.calls) > Len(s.calls)
        THEN [n EXCEPT !.answers = Append(@, Kept(n.calls[Len(n.calls)], a))]
        ELSE n

\* ------------------------------------------------------------ the actions
\* Frame with the handlers' locals kept in module-level variables: one set of
\* them for every invocation.
FrameShared(t) == "t1"

\* Where an invocation on thread t keeps its locals: a Python call frame of
\* its own.
Frame(t) == t

Local(t) == h[Frame(t)]

\* An invocation on thread t takes one step. solo[t] takes the same step on
\* locals nothing else touches: it is the invocation as it would run alone,
\* given the same answers.
Step(t, a) ==
    /\ h' = [h EXCEPT ![Frame(t)] = Advance(Local(t), a, calendar_agent)]
    /\ solo' = [solo EXCEPT ![t] = Advance(solo[t], a, calendar_agent)]
    /\ UNCHANGED <<calendar_agent, env, run>>

SearchAnswers(room) ==
    {Raise} \cup { Value(l) : l \in SeqsUpTo(env.meetings,
                                   IF room < env.max_len THEN room ELSE env.max_len) }

\* Flask dispatches a request to a handler.
Receive(t) ==
    /\ t \in env.threads
    /\ Local(t).pc = "idle"
    /\ \E f \in     { NewFrame("health", <<>>, "none"), NewFrame("next", <<>>, "none") }
               \cup { NewFrame("date", d, "none") : d \in env.date_strs }
               \cup { NewFrame("details", id, "none") : id \in MeetingIds }
               \cup { NewFrame("search", kw, "keyword") : kw \in Keywords }
               \cup { NewFrame("search", <<>>, b) : b \in {"none", "no_keyword"} } :
          /\ h' = [h EXCEPT ![Frame(t)] = f]
          /\ solo' = [solo EXCEPT ![t] = f]
    /\ UNCHANGED <<calendar_agent, env, run>>

\* The handler returns: Flask sends the response and the locals are gone.
Return(t) ==
    /\ Local(t).pc = "done"
    /\ h' = [h EXCEPT ![Frame(t)] = IdleFrame]
    /\ solo' = [solo EXCEPT ![t] = IdleFrame]
    /\ UNCHANGED <<calendar_agent, env, run>>

Entry(t) == Local(t).pc = "entry" /\ Step(t, Raise)

Parse(t) == Local(t).pc = "parse" /\ Step(t, Raise)

Strategy1(t) == Local(t).pc = "s1" /\ \E a \in SearchAnswers(env.max_len) : Step(t, a)

Strategy2(t) == Local(t).pc = "s2" /\ \E a \in SearchAnswers(env.max_len) : Step(t, a)

Strategy3(t) ==
    /\ Local(t).pc = "s3"
    /\ \E a \in SearchAnswers(env.max_all - Len(Local(t).all_meetings)) : Step(t, a)

Search(t) == Local(t).pc = "search" /\ \E a \in SearchAnswers(env.max_len) : Step(t, a)

Lookup(t) ==
    /\ Local(t).pc = "lookup"
    /\ \E a \in {Raise, Value(None)} \cup { Value(Some(m)) : m \in env.meetings } :
          Step(t, a)

Research(t) ==
    /\ Local(t).pc = "research"
    /\ \E a \in {Raise} \cup { Value(r) :
                r \in env.research[Local(t).meetings[Local(t).i].meeting_id] } :
          Step(t, a)

Summary(t) ==
    /\ Local(t).pc = "summary"
    /\ \E a \in {Raise, Value("summary")} : Step(t, a)

Questions(t) ==
    /\ Local(t).pc = "questions"
    /\ \E a \in {Raise, Value("questions")} : Step(t, a)

\* ------------------------------------------------ LangChainCalendarAgent
\* langchain_agent.py line 159.
max_iterations == 5

\* The names of the Tool objects _create_tools returns, in order.
ToolNames ==
    <<"get_next_meeting", "get_meetings_for_date", "search_meetings", "get_meeting_by_id">>

\* What a tool callback does with the CalendarAgent's answer a ("meeting",
\* "nothing", or an exception): the string it returns, or the exception it
\* lets through. Only get_meetings_for_date_tool has a try/except.
Returned(text) == [raised |-> FALSE, text |-> text]

Raised == [raised |-> TRUE, text |-> "exception"]

get_next_meeting_tool(a) ==
    IF a = "raise" THEN Raised
    ELSE IF a = "meeting" THEN Returned("json") ELSE Returned("No upcoming meetings found")

search_meetings_tool(a) ==
    IF a = "raise" THEN Raised
    ELSE IF a = "meeting" THEN Returned("json") ELSE Returned("No meetings found for keyword")

get_meetings_for_date_tool(a) ==
    IF a = "raise" THEN Returned("Error getting meetings")
    ELSE IF a = "meeting" THEN Returned("json") ELSE Returned("No meetings found for date")

get_meeting_by_id_tool(a) ==
    IF a = "raise" THEN Raised
    ELSE IF a = "meeting" THEN Returned("json") ELSE Returned("Meeting not found for ID")

\* The callback registered under a tool name.
ToolFunc(name, a) ==
    CASE name = "get_next_meeting"      -> get_next_meeting_tool(a)
      [] name = "get_meetings_for_date" -> get_meetings_for_date_tool(a)
      [] name = "search_meetings"       -> search_meetings_tool(a)
      [] name = "get_meeting_by_id"     -> get_meeting_by_id_tool(a)

\* One call of run(query): the executor's iteration count, the tool the LLM
\* chose, the observations so far, and what run returned.
IdleRun ==
    [ pc |-> "idle", tools |-> <<>>, iterations |-> 0, action |-> "none",
      steps |-> <<>>, result |-> [kind |-> "none", text |-> "none"] ]

\* Lines 162-164: run returns result["output"].
RunReturn(r, text) ==
    [r EXCEPT !.pc = "done", !.result = [kind |-> "str", text |-> text]]

\* RunCatch without the try/except: the exception leaves run.
RunPropagate(r) ==
    [r EXCEPT !.pc = "propagated", !.result = [kind |-> "exception", text |-> "exception"]]

\* Lines 165-166: run's "except Exception" returns the error string.
RunCatch(r) ==
    [r EXCEPT !.pc = "done", !.result = [kind |-> "str", text |-> "Error executing agent"]]

\* Lines 23 and 155-160: the tools are registered and the executor is built.
RunStart ==
    /\ run.pc = "idle"
    /\ run' = [run EXCEPT !.pc = "plan", !.tools = ToolNames]
    /\ UNCHANGED <<calendar_agent, env, h, solo>>

\* The executor asks the LLM for the next step while iterations remain: the
\* LLM call or the parsing of its text raises, or it gives the final answer,
\* or it names a tool (one of the four, or none of them).
RunPlan ==
    /\ run.pc = "plan"
    /\ run.iterations < max_iterations
    /\ \/ run' = RunCatch(run)
       \/ run' = RunReturn(run, "final answer")
       \/ \E name \in {ToolNames[j] : j \in 1..Len(ToolNames)} \cup {"unknown"} :
             run' = [run EXCEPT !.pc = "tool", !.action = name]
    /\ UNCHANGED <<calendar_agent, env, h, solo>>

\* The executor runs the chosen tool and counts the iteration; a name that is
\* no tool is answered with an "invalid tool" observation.
RunTool ==
    /\ run.pc = "tool"
    /\ \E a \in {"meeting", "nothing", "raise"} :
          LET out == IF run.action \in {run.tools[j] : j \in 1..Len(run.tools)}
                     THEN ToolFunc(run.action, a)
                     ELSE Returned("invalid tool")
          IN  run' = IF out.raised
                     THEN RunCatch(run)
                     ELSE [run EXCEPT !.pc = "plan", !.action = "none",
                                      !.iterations = @ + 1,
                                      !.steps = Append(@, run.action)]
    /\ UNCHANGED <<calendar_agent, env, h, solo>>

\* The iteration limit is reached: the executor stops with its fixed output.
RunStop ==
    /\ run.pc = "plan"
    /\ run.iterations >= max_iterations
    /\ run' = RunReturn(run, "Agent stopped due to iteration limit or time limit.")
    /\ UNCHANGED <<calendar_agent, env, h, solo>>

\* Lines 20-26: the handle is the agent, or None when its construction raised.
InitServer ==
    /\ calendar_agent \in {"agent", "None"}
    /\ h = [t \in Threads |-> IdleFrame]
    /\ solo = [t \in Threads |-> IdleFrame]
    /\ run = IdleRun

Init == InitServer /\ env = FullEnv

InitConc == InitServer /\ env = SmallEnv

Next ==
    \E t \in Threads :
        \/ Receive(t)
        \/ Entry(t)
        \/ Parse(t)
        \/ Strategy1(t)
        \/ Strategy2(t)
        \/ Strategy3(t)
        \/ Search(t)
        \/ Lookup(t)
        \/ Research(t)
        \/ Summary(t)
        \/ Questions(t)
        \/ Return(t)

\* One request at a time.
Spec == Init /\ [][Next]_vars

\* Two server threads, their requests interleaved step by step.
SpecConc == InitConc /\ [][Next]_vars

NextRun == RunStart \/ RunPlan \/ RunTool \/ RunStop

\* One call of LangChainCalendarAgent.run; every call it waits for returns.
SpecRun == Init /\ [][NextRun]_vars /\ WF_vars(NextRun)

\* ---------------------------------------------------- reading the history
IsSearch(c) == c.method = "search_meetings_by_keyword"

SearchCalls(s) == SelectSeq(s.calls, IsSearch)

Methods(s) == [j \in 1..Len(s.calls) |-> s.calls[j].method]

IsPrefix(a, b) == Len(a) <= Len(b) /\ a = SubSeq(b, 1, Len(a))

\* The searches of get_meetings_for_date when every one of them comes back
\* empty: the date_str, the six formats, the seven keywords.
Cascade(s) ==
    <<SearchCall(s.input, 10)>>
    \o [j \in 1..6 |-> SearchCall(date_formats(s.target_date[1])[j], 10)]
    \o [j \in 1..7 |-> SearchCall(keywords[j], 20)]

\* The step from s to s2 issued one more search.
IssuedSearch(s, s2) ==
    /\ Len(s2.calls) = Len(s.calls) + 1
    /\ IsSearch(s2.calls[Len(s2.calls)])

\* A keyword scan of strategy 3 raised (and was caught by the inner except).
ScanRaised(s) ==
    Len(SearchCalls(s)) > 7 /\ s.meetings = <<>> /\ "caught" \in s.events /\ s.pc = "done"

\* Strategy 3 ran to its end: seven scans, none of which raised.
ScansCompleted(s) ==
    s.handler = "date" /\ Len(SearchCalls(s)) = 14 /\ ~ScanRaised(s)

HasError(s) == "error" \in DOMAIN s.response.body

OnDate(start_time, target_date) ==
    start_time # None /\ start_time[1].date = target_date

\* ------------------------------------------------------------------- C1
C1_Inv ==
    \A t \in Threads :
        LET s == h[t]
            n == Len(SearchCalls(s))
        IN  s.handler = "date" =>
              /\ s.target_date = None => n = 0
              /\ s.target_date # None => IsPrefix(SearchCalls(s), Cascade(s))
              /\ s.pc \in {"s1", "s2", "s3"} => s.meetings = <<>>
              /\ s.pc = "s1" => n = 0
              /\ s.pc = "s2" => n = s.k /\ s.k \in 1..6
              /\ s.pc = "s3" => n = 6 + s.k /\ s.k \in 1..7
              /\ (n > 7 /\ s.pc # "s3") =>
                    \/ ScanRaised(s)
                    \/ n = 14 /\ s.meetings =
                          FilterByDate(RemoveDuplicates(s.all_meetings, {}),
                                       s.target_date[1])

C1_Act ==
    \A t \in Threads :
        LET s == h[t]
            s2 == h'[t]
            n2 == Len(SearchCalls(s2))
        IN  /\ (s.handler = "date" /\ IssuedSearch(s, s2)) =>
                 /\ s.meetings = <<>>
                 /\ n2 <= 8 => s.all_meetings = <<>>
                 /\ (n2 <= 7 /\ s2.meetings # <<>>) => s2.pc \in {"research", "done"}
            /\ (s.handler = "date" /\ s.meetings # <<>> /\ s2.handler = "date") =>
                 /\ s2.meetings = s.meetings
                 /\ SearchCalls(s2) = SearchCalls(s)

\* C1 (as amended): strategies 1 and 2 search in the fixed order, each search
\* is issued only when every search before it came back empty, and the first
\* non-empty result ends the searching and is the meetings of the response;
\* strategy 3 starts only when those seven searches were all empty. Strategy 3
\* itself issues its seven keyword scans in order whatever the earlier scans
\* returned, and its meetings are the de-duplicated, date-filtered
\* concatenation of all seven results (or nothing, when a scan raised).
C1_Cascade == [](C1_Inv) /\ [][C1_Act]_vars

\* A request that went through all fourteen searches and selected meetings.
C1_Witness ==
    \E t \in Threads :
        /\ h[t].handler = "date" /\ h[t].pc = "done"
        /\ Len(SearchCalls(h[t])) = 14
        /\ Len(h[t].all_meetings) = 3
        /\ h[t].meetings # <<>>

\* C1 as claimed: no search call is issued after a search returned meetings
\* (the first non-empty result is what the response uses).
C1_AsClaimed ==
    [][\A t \in Threads :
          (h[t].handler = "date" /\ IssuedSearch(h[t], h'[t])) =>
              (h[t].meetings = <<>> /\ h[t].all_meetings = <<>>)]_vars

\* ------------------------------------------------------------------- C2
Done(t) == h[t].pc = "done"

\* C2 (as amended): an exception that reaches a handler's outer except ends in
\* status 500 with an 'error' string, and get_meeting_details's not-found in
\* 404 with 'error'; but get_next_meeting's not-found ends in 200 with a
\* 'message' and no 'error', a missing or empty keyword in 400 with 'error',
\* and an exception caught by an inner except does not fail the request.
C2_FailurePaths ==
    \A t \in Threads :
        LET s == h[t]
            r == s.response
        IN  Done(t) =>
              /\ r.status \in {200, 400, 404, 500}
              /\ r.status # 200 <=> HasError(s)
              /\ "raised" \in s.events => r.status = 500
              /\ "bad_input" \in s.events => r.status = 400
              /\ "not_found" \in s.events =>
                    IF s.handler = "details"
                    THEN r.status = 404
                    ELSE r.status = 200 /\ "message" \in DOMAIN r.body
              /\ (s.events \subseteq {"caught"} /\ calendar_agent # "None") =>
                    r.status = 200
              /\ r.status = 404 => "not_found" \in s.events
              /\ r.status = 400 => "bad_input" \in s.events
              /\ r.status = 500 => ("raised" \in s.events \/ calendar_agent = "None")

\* get_next_meeting found no meeting and answered.
C2_Witness ==
    \E t \in Threads :
        Done(t) /\ h[t].handler = "next" /\ "not_found" \in h[t].events

\* C2 as claimed: every failure path ends with an 'error' and status 500 or 404.
C2_AsClaimed ==
    \A t \in Threads :
        (Done(t) /\ h[t].events # {}) =>
            (HasError(h[t]) /\ h[t].response.status \in {500, 404})

\* ------------------------------------------------------------------- C3
\* C3 as claimed: every meeting of a successful /meetings/<date_str> response
\* starts on the requested date.
C3_AsClaimed ==
    \A t \in Threads :
        LET s == h[t]
        IN  (Done(t) /\ s.handler = "date" /\ s.response.status = 200) =>
              \A j \in 1..Len(s.response.body.meetings) :
                  LET e == s.response.body.meetings[j]
                  IN  /\ e.start_time # None
                      /\ SubSeq(e.start_time[1], 1, 10) = FmtISO(s.target_date[1])

\* ------------------------------------------------------------------- C4
\* C4 as claimed: get_meetings_for_date never issues the same search (query
\* and max_results) twice in one request.
C4_AsClaimed ==
    \A t \in Threads :
        LET sc == SearchCalls(h[t])
        IN  h[t].handler = "date" =>
              \A i \in 1..Len(sc) : \A j \in 1..Len(sc) : i # j => sc[i] # sc[j]

\* ------------------------------------------------------------------- C5
C5_Inv ==
    \A t \in Threads :
        LET s == h[t]
        IN  /\ calendar_agent = "None" => (s.calls = <<>> /\ ~s.parsed)
            /\ (Done(t) /\ s.handler # "health" /\ calendar_agent = "None") =>
                  /\ s.response.status = 500
                  /\ s.response.body.error = "Calendar agent not available"
            /\ (Done(t) /\ s.handler = "health") =>
                  /\ s.response.status = 200
                  /\ s.response.body.status = "healthy"
                  /\ s.response.body.agent_available = (calendar_agent # "None")

\* C5: with the handle None every handler but health_check answers 500
\* 'Calendar agent not available' before parsing and without any agent call;
\* health_check answers 'healthy' with agent_available telling whether the
\* handle is set; and no step changes the handle.
C5_Unavailable == [](C5_Inv) /\ [][calendar_agent' = calendar_agent]_vars

\* search_meetings answered while the handle is None.
C5_Witness ==
    \E t \in Threads :
        Done(t) /\ h[t].handler = "search" /\ calendar_agent = "None"

RunSafe ==
    /\ run.pc \in {"idle", "plan", "tool", "done"}
    /\ run.iterations <= max_iterations
    /\ Len(run.steps) = run.iterations
    /\ run.pc # "idle" =>
          /\ Len(run.tools) = 4
          /\ {run.tools[j] : j \in 1..Len(run.tools)} =
                {"get_next_meeting", "get_meetings_for_date", "search_meetings",
                 "get_meeting_by_id"}
    /\ run.pc = "done" =>
          /\ run.result.kind = "str"
          /\ run.result.text \in
                {"final answer", "Error executing agent",
                 "Agent stopped due to iteration limit or time limit."}

DetailsOrder ==
    <<"get_meeting_by_id", "research_meeting_attendees", "generate_meeting_summary",
      "generate_meeting_type_questions">>

\* C8: get_meeting_details calls lookup, attendee research, summary and
\* questions in that order; it answers 404 'Meeting not found' exactly when
\* the lookup yields no meeting, having called nothing else; an exception in
\* any step gives 500 with nothing but the error in the body.
C8_Details ==
    \A t \in Threads :
        LET s == h[t]
            r == s.response
        IN  s.handler = "details" =>
              /\ IsPrefix(Methods(s), DetailsOrder)
              /\ (Done(t) /\ calendar_agent # "None") =>
                    /\ r.status = 404 <=>
                          (Len(s.calls) = 1 /\ s.meetings = <<>> /\ "raised" \notin s.events)
                    /\ r.status = 404 <=> "not_found" \in s.events
                    /\ r.status = 404 => r.body = [error |-> "Meeting not found"]
                    /\ r.status \in {200, 404, 500}
                    /\ r.status = 500 <=> "raised" \in s.events
                    /\ r.status = 500 => DOMAIN r.body = {"error"}
                    /\ r.status = 200 =>
                          /\ Len(s.calls) = 4
                          /\ r.body.id = s.meetings[1].meeting_id

\* get_meeting_details found no meeting.
C8_Witness ==
    \E t \in Threads :
        Done(t) /\ h[t].handler = "details" /\ h[t].response.status = 404

\* ------------------------------------------------------------------- C9
\* The place in all_meetings of the first meeting with this title.
FirstWith(all_meetings, title) ==
    CHOOSE i \in 1..Len(all_meetings) :
        /\ all_meetings[i].meeting_title = title
        /\ \A j \in 1..(i - 1) : all_meetings[j].meeting_title # title

\* C9: when strategy 3 ran without raising, its result has no two meetings
\* of one title, every meeting in it is the first one the scans returned with
\* its title and starts on the target date, the meetings are in the order the
\* scans returned them, and every first-of-its-title meeting that starts on
\* the target date is in it.
C9_Strategy3 ==
    \A t \in Threads :
        LET s == h[t]
            res == s.meetings
            all == s.all_meetings
        IN  ScansCompleted(s) =>
              /\ \A i \in 1..Len(res) : \A j \in 1..Len(res) :
                    i # j => res[i].meeting_title # res[j].meeting_title
              /\ \A i \in 1..Len(res) :
                    /\ OnDate(res[i].start_time, s.target_date[1])
                    /\ all[FirstWith(all, res[i].meeting_title)] = res[i]
              /\ \A i \in 1..Len(res) : \A j \in 1..Len(res) :
                    i < j => FirstWith(all, res[i].meeting_title)
                                < FirstWith(all, res[j].meeting_title)
              /\ \A i \in 1..Len(all) :
                    (FirstWith(all, all[i].meeting_title) = i
                        /\ OnDate(all[i].start_time, s.target_date[1]))
                    => \E j \in 1..Len(res) : res[j] = all[i]

\* Seven scans returned three meetings, two of them selected.
C9_Witness ==
    \E t \in Threads :
        /\ ScansCompleted(h[t])
        /\ Len(h[t].all_meetings) = 3
        /\ Len(h[t].meetings) = 2

\* ------------------------------------------------------------------ C10
\* C10 as claimed: every meeting the seven scans returned that starts on the
\* target date has a meeting of its title and date in the response.
C10_AsClaimed ==
    \A t \in Threads :
        LET s == h[t]
            all == s.all_meetings
        IN  (ScansCompleted(s) /\ Done(t) /\ s.response.status = 200) =>
              \A i \in 1..Len(all) :
                  OnDate(all[i].start_time, s.target_date[1]) =>
                      \E j \in 1..Len(s.response.body.meetings) :
                          LET e == s.response.body.meetings[j]
                          IN  /\ e.title = all[i].meeting_title
                              /\ e.start_time # None
                              /\ SubSeq(e.start_time[1], 1, 10) =
                                    FmtISO(s.target_date[1])

\* ------------------------------------------------------------------ C11
IsResearch(c) == c.method = "research_meeting_attendees"

IsGeneration(c) ==
    c.method \in {"generate_meeting_summary", "generate_meeting_type_questions"}

\* How many research calls the first i calls hold.
ResearchCount(s, i) == Cardinality({k \in 1..i : IsResearch(s.calls[k])})

\* The place in calls of the research call for the j-th selected meeting.
ResearchAt(s, j) ==
    CHOOSE i \in 1..Len(s.calls) : IsResearch(s.calls[i]) /\ ResearchCount(s, i) = j

\* The place in calls of the last call made for the j-th selected meeting.
GroupEnd(s, j) ==
    IF ResearchCount(s, Len(s.calls)) > j THEN ResearchAt(s, j + 1) - 1 ELSE Len(s.calls)

C11_Entry(s, j) ==
    LET r == ResearchAt(s, j)
        last == GroupEnd(s, j)
        e == s.enhanced_meetings[j]
    IN  /\ last \in {r + 1, r + 2}
        /\ ~s.answers[r].raised
        /\ e.id = s.meetings[j].meeting_id
        /\ e.attendees = AttendeeInfos(s.answers[r].value)
        /\ IF s.answers[last].raised
           THEN /\ e.research_summary = "Error generating research summary"
                /\ e.preparation_questions = "Error generating preparation questions"
           ELSE /\ last = r + 2
                /\ e.research_summary = s.answers[r + 1].value
                /\ e.preparation_questions = s.answers[r + 2].value

\* C11: in the list endpoints a meeting whose summary or question generation
\* raised is still in the list, with both texts the fixed placeholders (the
\* summary too when only the questions raised) and its attendees kept; the
\* other meetings are processed as usual and the response is 200; an
\* exception of research_meeting_attendees ends the request at once with 500
\* and no meetings.
C11_ListErrors ==
    \A t \in Threads :
        LET s == h[t]
            r == s.response
        IN  ListHandler(s) =>
              /\ \A j \in 1..Len(s.enhanced_meetings) : C11_Entry(s, j)
              /\ \A i \in 1..Len(s.calls) :
                    /\ (IsResearch(s.calls[i]) /\ s.answers[i].raised) =>
                          /\ Done(t) /\ i = Len(s.calls)
                          /\ r.status = 500 /\ HasError(s)
                          /\ "meetings" \in DOMAIN r.body => r.body.meetings = <<>>
                    /\ (IsGeneration(s.calls[i]) /\ s.answers[i].raised) =>
                          /\ ResearchCount(s, i) <= Len(s.enhanced_meetings)
                          /\ Done(t) =>
                                \/ r.status = 200
                                \/ \E k \in (i + 1)..Len(s.calls) :
                                      IsResearch(s.calls[k]) /\ s.answers[k].raised
              /\ (Done(t) /\ r.status = 200) =>
                    /\ r.body.meetings = s.enhanced_meetings
                    /\ Len(r.body.meetings) = Len(s.meetings)

\* A 200 response of two meetings: the first one's questions raised after its
\* summary had been generated, the second one went through.
C11_Witness ==
    \E t \in Threads :
        LET s == h[t]
        IN  /\ ListHandler(s) /\ Done(t) /\ s.response.status = 200
            /\ Len(s.enhanced_meetings) = 2
            /\ GroupEnd(s, 1) = ResearchAt(s, 1) + 2
            /\ s.answers[GroupEnd(s, 1)].raised
            /\ ~s.answers[GroupEnd(s, 2)].raised
            /\ s.enhanced_meetings[1].attendees # <<>>

\* ------------------------------------------------------------------ C12
\* The attendees of a response entry are the research results, one for one.
SameAttendees(attendees, research_results) ==
    /\ Len(attendees) = Len(research_results)
    /\ \A k \in 1..Len(research_results) :
          /\ attendees[k].name = research_results[k].attendee.display_name
          /\ attendees[k].research_summary = research_results[k].research_summary
          /\ attendees[k].found_info = research_results[k].found_info

\* C12: in every successful response of get_meetings_for_date and
\* search_meetings, count is the length of meetings, meetings has one entry
\* per selected meeting in the same order, research_meeting_attendees was
\* called exactly once per selected meeting, and each entry's attendees has
\* one item per research result in the same order; search_meetings made
\* exactly one search call, with max_results 5.
C12_Counts ==
    \A t \in Threads :
        LET s == h[t]
            body == s.response.body
        IN  (ListHandler(s) /\ Done(t) /\ s.response.status = 200) =>
              /\ body.count = Len(body.meetings)
              /\ Len(body.meetings) = Len(s.meetings)
              /\ SelectSeq(s.calls, IsResearch) =
                    [j \in 1..Len(s.meetings) |->
                        MeetingCall("research_meeting_attendees", s.meetings[j])]
              /\ \A j \in 1..Len(s.meetings) :
                    /\ body.meetings[j].id = s.meetings[j].meeting_id
                    /\ body.meetings[j].title = s.meetings[j].meeting_title
                    /\ SameAttendees(body.meetings[j].attendees,
                                     s.answers[ResearchAt(s, j)].value)
              /\ s.handler = "search" =>
                    SelectSeq(s.calls, IsSearch) = <<SearchCall(s.input, 5)>>

\* search_meetings answered 200 with two meetings, one of them with two
\* attendees of whom nothing was found about one.
C12_Witness ==
    \E t \in Threads :
        LET s == h[t]
        IN  /\ s.handler = "search" /\ Done(t) /\ s.response.status = 200
            /\ s.response.body.count = 2
            /\ s.response.body.meetings[1].id # s.response.body.meetings[2].id
            /\ \E j \in 1..2 :
                  LET attendees == s.response.body.meetings[j].attendees
                  IN  /\ Len(attendees) = 2
                      /\ \E k \in 1..2 : ~attendees[k].found_info

\* ------------------------------------------------------------------ C13
\* Places in calls of strategy 3's searches: strategy 1 and the six formats
\* of strategy 2 come first.
ScanPlaces(s) == (1 + Len(date_formats(s.target_date[1])) + 1)..Len(s.calls)

\* C13: with the agent available, a date_str that does not parse as
\* YYYY-MM-DD is answered 500 with 'error' and 'meetings': [] and no search
\* was made; a search_meetings body whose 'keyword' is missing or empty is
\* answered 400 'Keyword is required' and no agent method was called; an
\* exception inside the strategy-3 scan is caught there and the request
\* completes with 200 and the (empty) meetings found so far.
C13_BadInput ==
    \A t \in Threads :
        LET s == h[t]
            r == s.response
        IN  /\ (Done(t) /\ s.handler = "date" /\ calendar_agent # "None"
                  /\ strptime(s.input) = None) =>
                  /\ r.status = 500 /\ HasError(s)
                  /\ r.body.meetings = <<>>
                  /\ s.calls = <<>>
            /\ (Done(t) /\ s.handler = "search" /\ calendar_agent # "None"
                  /\ s.body_kind # "none"
                  /\ (s.body_kind = "no_keyword" \/ s.input = <<>>)) =>
                  /\ r.status = 400
                  /\ r.body = [error |-> "Keyword is required"]
                  /\ s.calls = <<>>
            /\ (s.handler = "date" /\ s.target_date # None) =>
                  \A i \in ScanPlaces(s) :
                      (IsSearch(s.calls[i]) /\ s.answers[i].raised) =>
                          /\ Done(t) /\ i = Len(s.calls)
                          /\ r.status = 200
                          /\ r.body = [date |-> s.input, meetings |-> <<>>, count |-> 0]

\* A get_meetings_for_date request whose strategy-3 scan had already found
\* meetings when a later search of it raised.
C13_Witness ==
    \E t \in Threads :
        LET s == h[t]
        IN  /\ s.handler = "date" /\ Done(t) /\ s.target_date # None
            /\ s.all_meetings # <<>>
            /\ Len(s.calls) \in ScanPlaces(s)
            /\ IsSearch(s.calls[Len(s.calls)])
            /\ s.answers[Len(s.calls)].raised
====
